---- MODULE Spec2Model ----
(***************************************************************************)
(* Cache-aside task repository of db-service (internal/repository):        *)
(* a PostgreSQL table "tasks" fronted by a Redis cache keyed "task:<id>".  *)
(* Concurrent callers run the repository methods; every store statement    *)
(* and every cache command is one atomic step of its caller.                *)
(***************************************************************************)
EXTENDS Integers, Sequences, FiniteSets, TLC

\* ---------------------------------------------------------------- bounds
MaxTasks == 2      \* rows the store sequence hands out
MaxTime  == 2      \* clock ticks
CacheTTL == 1      \* configured TTL, in ticks
MaxKeyId == 120    \* ids whose keys are compared

Procs        == {"p1", "p2"}
Ids          == 1 .. MaxTasks
Titles       == {"A"}
Descriptions == {"d"}

VARIABLES
    now,            \* wall clock (CURRENT_TIMESTAMP, Redis expiry)
    store,          \* table tasks: id -> row, for the ids that have a row
    nextId,         \* the table's id sequence
    redisClient,    \* TaskRepository.redisClient: "nil" or "client"
    cacheTTL,       \* TaskRepository.cacheTTL
    cache,          \* Redis: key -> [data, exp], for the keys that exist
    pc,             \* per caller: position inside the method it runs
    op,             \* per caller: method name
    arg,            \* per caller: the id the call is about
    res,            \* per caller: (task, tasks, err) being returned
    obs,            \* per caller: what the call did so far (history)
    ref,            \* per caller: result of the store-only repository
    refStore,       \* table as the store-only repository leaves it
    lastWrite,      \* id -> method and time of the last write to the id's key
    directDeleted,  \* ids whose row was deleted bypassing the repository
    callers,        \* the callers that issue requests
    issued,         \* the ids CreateTask has returned, in order
    svc,            \* per caller: the TaskServer/TaskService call it is in
    startup,        \* what main met at startup: Redis configured, its ping
    http            \* api-service: the HTTP request a TaskHandler is serving

vars == <<now, store, nextId, redisClient, cacheTTL, cache, pc, op, arg,
          res, obs, ref, refStore, lastWrite, directDeleted, callers, issued, svc, startup, http>>

\* ---------------------------------------------------------------- values
ErrNil    == "nil"
ErrNoRows == "sql: no rows in result set"
StoreErr  == "store error"

NilTask == [id |-> 0, title |-> "", description |-> "", completed |-> FALSE,
            created_at |-> 0, updated_at |-> 0]

Garbage == <<>>

NoResult == [err |-> ErrNil, task |-> NilTask, tasks |-> <<>>]

NoRef == [err |-> "unset", task |-> NilTask, tasks |-> <<>>]

NoWrite == [op |-> "", at |-> 0, task |-> NilTask]

Expired == [op |-> "expired", at |-> 0, task |-> NilTask]

Deleted == [op |-> "DeleteTask", at |-> 0 - 1, task |-> NilTask]

NoExpiry == 0 - 1

NoReq == [title |-> "", description |-> ""]

\* gRPC status codes (google.golang.org/grpc/codes)
OK                 == "OK"
InvalidArgument    == "InvalidArgument"
NotFound           == "NotFound"
FailedPrecondition == "FailedPrecondition"
Internal           == "Internal"

\* a caller outside TaskServer
NoCall == [op |-> "", stage |-> "idle", id |-> 0, req |-> NoReq,
           err |-> ErrNil, task |-> NilTask, tasks |-> <<>>,
           got |-> NilTask, goterr |-> ErrNil, hit |-> FALSE, calls |-> <<>>,
           resp |-> "", code |-> OK, msg |-> ""]

\* no HTTP request is being served
NoHttp == [handler |-> "", stage |-> "idle", method |-> "", body |-> "",
           valid |-> FALSE, backend |-> "", sends |-> 0, events |-> 0,
           sendErr |-> FALSE, status |-> 0, out |-> ""]

NoObs == [stmts |-> 0, cget |-> 0, cset |-> 0, cdel |-> 0,
          cfail |-> FALSE, sfail |-> FALSE, hadRow |-> FALSE, hit |-> FALSE,
          lkRow |-> FALSE, lk |-> NoWrite, req |-> NoReq]

Remove(f, k) == [x \in (DOMAIN f) \ {k} |-> f[x]]

\* ------------------------------------------------------- cache key, JSON
Digit == <<"0", "1", "2", "3", "4", "5", "6", "7", "8", "9">>

RECURSIVE Decimal(_)
Decimal(n) == IF n < 10 THEN Digit[n + 1]
              ELSE Decimal(n \div 10) \o Digit[(n % 10) + 1]

cacheKey_NoId(id) == "task:"

cacheKey(id) == "task:" \o Decimal(id)

Marshal_OmitDescription(t) == <<t.id, t.title, "", t.completed,
                               t.created_at, t.updated_at>>

Marshal(t) == <<t.id, t.title, t.description, t.completed,
                t.created_at, t.updated_at>>

UnmarshalOk(d) == Len(d) = 6

Unmarshal(d) == [id |-> d[1], title |-> d[2], description |-> d[3],
                 completed |-> d[4], created_at |-> d[5], updated_at |-> d[6]]

\* ------------------------------------------------------------ Redis
RedisSet_KeepTTL(c, key, data, ttl) ==
    (key :> [data |-> data,
             exp |-> IF key \in DOMAIN c THEN c[key].exp
                     ELSE IF ttl = 0 THEN NoExpiry ELSE now + ttl]) @@ c

\* SET key data EX ttl; a zero ttl stores the key without expiry
RedisSet(c, key, data, ttl) ==
    (key :> [data |-> data, exp |-> IF ttl = 0 THEN NoExpiry ELSE now + ttl]) @@ c

Alive(e, t) == e.exp = NoExpiry \/ t < e.exp

RedisHas(c, key) == key \in DOMAIN c /\ Alive(c[key], now)

RedisDel(c, key) == Remove(c, key)

\* ------------------------------------------------------------ SQL
\* table tasks: the id sequence, and the defaults of the columns that the
\* INSERT does not name
FirstId == 1

Nextval(nid) == nid + 1

ColumnDefaults(nid) ==
    [id |-> nid, completed |-> FALSE, created_at |-> now, updated_at |-> now]

SqlInsert_NoReturningId(st, nid, req, so) ==
    IF so # "ok"
    THEN [err |-> StoreErr, task |-> NilTask, store |-> st, nextId |-> nid]
    ELSE LET d == ColumnDefaults(nid)
             t == [id |-> d.id, title |-> req.title,
                   description |-> req.description, completed |-> d.completed,
                   created_at |-> d.created_at, updated_at |-> d.updated_at]
         IN [err |-> ErrNil, task |-> [t EXCEPT !.id = 0],
             store |-> (nid :> t) @@ st, nextId |-> Nextval(nid)]

SqlInsert_SwapArgs(st, nid, req, so) ==
    IF so # "ok"
    THEN [err |-> StoreErr, task |-> NilTask, store |-> st, nextId |-> nid]
    ELSE LET d == ColumnDefaults(nid)
             t == [id |-> d.id, title |-> req.description,
                   description |-> req.title, completed |-> d.completed,
                   created_at |-> d.created_at, updated_at |-> d.updated_at]
         IN [err |-> ErrNil, task |-> t, store |-> (nid :> t) @@ st,
             nextId |-> Nextval(nid)]

SqlInsert(st, nid, req, so) ==
    IF so # "ok"
    THEN [err |-> StoreErr, task |-> NilTask, store |-> st, nextId |-> nid]
    ELSE LET d == ColumnDefaults(nid)
             t == [id |-> d.id, title |-> req.title,
                   description |-> req.description, completed |-> d.completed,
                   created_at |-> d.created_at, updated_at |-> d.updated_at]
         IN [err |-> ErrNil, task |-> t, store |-> (nid :> t) @@ st,
             nextId |-> Nextval(nid)]

SqlSelect(st, id, so) ==
    IF so # "ok" THEN [err |-> StoreErr, task |-> NilTask]
    ELSE IF id \notin DOMAIN st THEN [err |-> ErrNoRows, task |-> NilTask]
    ELSE [err |-> ErrNil, task |-> st[id]]

SqlSelectAll_SkipFirst(st) ==
    {SubSeq(s, 2, Len(s)) :
        s \in {x \in [1 .. Cardinality(DOMAIN st) -> DOMAIN st] :
                  \A i, j \in DOMAIN x : i # j => x[i] # x[j]}}

\* the rows of the table in every order a scan may deliver them
SqlSelectAll(st) ==
    {s \in [1 .. Cardinality(DOMAIN st) -> DOMAIN st] :
        \A i, j \in DOMAIN s : i # j => s[i] # s[j]}

\* the rows that the loop over rows.Next() sees of a scan in the given order:
\* all of them, or, when the scan breaks off, those delivered until then
RowsNext(order, so) ==
    IF so = "iter_err" THEN {SubSeq(order, 1, k) : k \in 0 .. Len(order)}
    ELSE {order}

SqlUpdate_AllTimestamps(st, id, so) ==
    IF so # "ok" THEN [err |-> StoreErr, task |-> NilTask, store |-> st]
    ELSE IF id \notin DOMAIN st
         THEN [err |-> ErrNoRows, task |-> NilTask, store |-> st]
    ELSE LET t == [st[id] EXCEPT !.completed = TRUE, !.created_at = now,
                                 !.updated_at = now]
         IN [err |-> ErrNil, task |-> t, store |-> [st EXCEPT ![id] = t]]

SqlUpdate_KeepUpdatedAt(st, id, so) ==
    IF so # "ok" THEN [err |-> StoreErr, task |-> NilTask, store |-> st]
    ELSE IF id \notin DOMAIN st
         THEN [err |-> ErrNoRows, task |-> NilTask, store |-> st]
    ELSE LET t == [st[id] EXCEPT !.completed = TRUE]
         IN [err |-> ErrNil, task |-> t, store |-> [st EXCEPT ![id] = t]]

SqlUpdate_OnlyUncompleted(st, id, so) ==
    IF so # "ok" THEN [err |-> StoreErr, task |-> NilTask, store |-> st]
    ELSE IF id \notin DOMAIN st \/ st[id].completed
         THEN [err |-> ErrNoRows, task |-> NilTask, store |-> st]
    ELSE LET t == [st[id] EXCEPT !.completed = TRUE, !.updated_at = now]
         IN [err |-> ErrNil, task |-> t, store |-> [st EXCEPT ![id] = t]]

SqlUpdate(st, id, so) ==
    IF so # "ok" THEN [err |-> StoreErr, task |-> NilTask, store |-> st]
    ELSE IF id \notin DOMAIN st
         THEN [err |-> ErrNoRows, task |-> NilTask, store |-> st]
    ELSE LET t == [st[id] EXCEPT !.completed = TRUE, !.updated_at = now]
         IN [err |-> ErrNil, task |-> t, store |-> [st EXCEPT ![id] = t]]

SqlDelete(st, id, so) ==
    IF so = "err" THEN [err |-> StoreErr, rows |-> 0, store |-> st]
    ELSE [err |-> IF so = "rows_err" THEN StoreErr ELSE ErrNil,
          rows |-> IF id \in DOMAIN st THEN 1 ELSE 0,
          store |-> Remove(st, id)]

\* --------------------------------------------- cache helpers (repository)
\* main: the client handed to NewTaskRepository
NewRedisClient_KeepOnPingFailure(s) == IF s.enabled THEN "client" ELSE "nil"

NewRedisClient(s) == IF s.enabled /\ s.ping = "ok" THEN "client" ELSE "nil"

\* cfg.Redis.Enabled and, when it is set, the outcome of the startup ping
Startups == {[enabled |-> FALSE, ping |-> "none"],
             [enabled |-> TRUE, ping |-> "ok"],
             [enabled |-> TRUE, ping |-> "err"]}

cacheEnabled_ClientOnly == redisClient # "nil"

cacheEnabled == redisClient # "nil" /\ cacheTTL > 0

setTaskCache_NoTTL(c, task, co) ==
    IF co # "ok" THEN [cache |-> c, sent |-> 1, failed |-> TRUE]
    ELSE [cache |-> RedisSet(c, cacheKey(task.id), Marshal(task), 0),
          sent |-> 1, failed |-> FALSE]

setTaskCache(c, task, co) ==
    IF ~cacheEnabled THEN [cache |-> c, sent |-> 0, failed |-> FALSE]
    ELSE IF co = "marshal_err" THEN [cache |-> c, sent |-> 0, failed |-> TRUE]
    ELSE IF co # "ok" THEN [cache |-> c, sent |-> 1, failed |-> TRUE]
    ELSE [cache |-> RedisSet(c, cacheKey(task.id), Marshal(task), cacheTTL),
          sent |-> 1, failed |-> FALSE]

getTaskFromCache_DecodeErrAsHit(c, id, co) ==
    IF co = "ok" /\ RedisHas(c, cacheKey(id))
    THEN [task |-> IF UnmarshalOk(c[cacheKey(id)].data)
                   THEN Unmarshal(c[cacheKey(id)].data) ELSE NilTask,
          ok |-> TRUE, sent |-> 1, failed |-> FALSE]
    ELSE [task |-> NilTask, ok |-> FALSE, sent |-> 1, failed |-> co # "ok"]

getTaskFromCache_CheckRow(c, id, co) ==
    IF co = "ok" /\ RedisHas(c, cacheKey(id)) /\ UnmarshalOk(c[cacheKey(id)].data)
       /\ id \in DOMAIN store
    THEN [task |-> Unmarshal(c[cacheKey(id)].data), ok |-> TRUE,
          sent |-> 1, failed |-> FALSE]
    ELSE [task |-> NilTask, ok |-> FALSE, sent |-> 1, failed |-> co # "ok"]

getTaskFromCache_ErrAsHit(c, id, co) ==
    IF co = "ok" /\ RedisHas(c, cacheKey(id)) /\ UnmarshalOk(c[cacheKey(id)].data)
    THEN [task |-> Unmarshal(c[cacheKey(id)].data), ok |-> TRUE,
          sent |-> 1, failed |-> FALSE]
    ELSE [task |-> NilTask, ok |-> co # "ok", sent |-> 1, failed |-> co # "ok"]

getTaskFromCache(c, id, co) ==
    IF ~cacheEnabled
    THEN [task |-> NilTask, ok |-> FALSE, sent |-> 0, failed |-> FALSE]
    ELSE IF co # "ok"
    THEN [task |-> NilTask, ok |-> FALSE, sent |-> 1, failed |-> TRUE]
    ELSE IF ~RedisHas(c, cacheKey(id))
    THEN [task |-> NilTask, ok |-> FALSE, sent |-> 1, failed |-> FALSE]
    ELSE IF ~UnmarshalOk(c[cacheKey(id)].data)
    THEN [task |-> NilTask, ok |-> FALSE, sent |-> 1, failed |-> TRUE]
    ELSE [task |-> Unmarshal(c[cacheKey(id)].data), ok |-> TRUE,
          sent |-> 1, failed |-> FALSE]

deleteTaskCache_Noop(c, id, co) ==
    [cache |-> c, sent |-> 1, failed |-> co # "ok"]

deleteTaskCache(c, id, co) ==
    IF ~cacheEnabled THEN [cache |-> c, sent |-> 0, failed |-> FALSE]
    ELSE IF co # "ok" THEN [cache |-> c, sent |-> 1, failed |-> TRUE]
    ELSE [cache |-> RedisDel(c, cacheKey(id)), sent |-> 1, failed |-> FALSE]

\* ------------------------------------- store-only repository (reference)
RefCreateTask(st, nid, req, so) == SqlInsert(st, nid, req, so)

RefGetTaskByID(st, id, so) == SqlSelect(st, id, so)

RefGetAllTasks(st, rows, so) ==
    IF so = "err" THEN [err |-> StoreErr, tasks |-> <<>>]
    ELSE [err |-> ErrNil, tasks |-> [i \in DOMAIN rows |-> st[rows[i]]]]

RefDoneTask(st, id, so) == SqlUpdate(st, id, so)

RefDeleteTask(st, id, so) ==
    LET d == SqlDelete(st, id, so)
    IN [err |-> IF d.err # ErrNil THEN d.err
                ELSE IF d.rows = 0 THEN ErrNoRows ELSE ErrNil,
        store |-> d.store]

\* ---------------------------------------------------------------- Init
InitCommon ==
    /\ now = 0
    /\ store = <<>>
    /\ nextId = FirstId
    /\ cache = <<>>
    /\ pc = [p \in Procs |-> "idle"]
    /\ op = [p \in Procs |-> ""]
    /\ arg = [p \in Procs |-> 0]
    /\ res = [p \in Procs |-> NoResult]
    /\ obs = [p \in Procs |-> NoObs]
    /\ ref = [p \in Procs |-> NoRef]
    /\ refStore = <<>>
    /\ lastWrite = [i \in Ids |-> NoWrite]
    /\ directDeleted = {}
    /\ issued = <<>>
    /\ svc = [p \in Procs |-> NoCall]
    /\ http = NoHttp
    /\ startup \in Startups
    /\ redisClient = NewRedisClient(startup)

Init ==
    /\ InitCommon
    /\ redisClient = "client"
    /\ cacheTTL = CacheTTL
    /\ callers = {"p1"}

InitConc ==
    /\ InitCommon
    /\ redisClient = "client"
    /\ cacheTTL = CacheTTL
    /\ callers = Procs

InitOff ==
    /\ InitCommon
    /\ \/ redisClient = "nil" /\ cacheTTL \in {0, CacheTTL}
       \/ redisClient = "client" /\ cacheTTL = 0
    /\ callers = {"p1"}

\* every way main builds the repository: with or without a client, with a
\* positive TTL or none
InitAny ==
    /\ InitCommon
    /\ redisClient \in {"nil", "client"}
    /\ cacheTTL \in {0, CacheTTL}
    /\ callers = {"p1"}

\* a TTL that spans more than one tick: an entry can be overwritten while
\* it is still alive
InitLong ==
    /\ InitCommon
    /\ redisClient = "client"
    /\ cacheTTL = CacheTTL + 1
    /\ callers = {"p1"}

\* ------------------------------------------------------------- ghosts
\* the call of p executed one store statement
Stmt(p, so, hadRow) ==
    [obs[p] EXCEPT !.stmts = @ + 1, !.sfail = (so # "ok"), !.hadRow = hadRow]

\* the last write to the id's key after the attempt w of method name
AfterCacheWrite(id, w, name, task) ==
    IF w.sent = 1 /\ ~w.failed /\ id \in Ids
    THEN [lastWrite EXCEPT ![id] = [op |-> name, at |-> now, task |-> task]]
    ELSE lastWrite

\* if err != nil { ...; return nil, err }
AfterStmt_FallThrough(err, next) == next

AfterStmt_ReturnFirst(err, next) == "done"

AfterStmt_OnlyStoreErr(err, next) == IF err = StoreErr THEN "done" ELSE next

AfterStmt(err, next) == IF err # ErrNil THEN "done" ELSE next

Begin(p, name, id) ==
    /\ p \in callers
    /\ pc[p] = "idle"
    /\ op' = [op EXCEPT ![p] = name]
    /\ arg' = [arg EXCEPT ![p] = id]

\* ------------------------------------------------------------ CreateTask
CreateTask_Insert(p, req, so) ==
    LET r == SqlInsert(store, nextId, req, so)
        f == RefCreateTask(refStore, nextId, req, so)
    IN /\ nextId <= MaxTasks
       /\ Begin(p, "CreateTask", r.task.id)
       /\ store' = r.store
       /\ nextId' = r.nextId
       /\ refStore' = f.store
       /\ res' = [res EXCEPT ![p] = [NoResult EXCEPT !.err = r.err, !.task = r.task]]
       /\ ref' = [ref EXCEPT ![p] = [NoResult EXCEPT !.err = f.err, !.task = f.task]]
       /\ obs' = [obs EXCEPT ![p] = [Stmt(p, so, FALSE) EXCEPT !.req = req]]
       /\ issued' = IF r.err = ErrNil THEN Append(issued, r.task.id) ELSE issued
       /\ pc' = [pc EXCEPT ![p] = AfterStmt(r.err, "create_cache")]
       /\ UNCHANGED <<now, redisClient, cacheTTL, cache, lastWrite, directDeleted,
                      callers, svc, startup, http>>

CreateTask_Cache(p, co) ==
    LET w == setTaskCache(cache, res[p].task, co)
    IN /\ pc[p] = "create_cache"
       /\ cache' = w.cache
       /\ obs' = [obs EXCEPT ![p].cset = @ + w.sent, ![p].cfail = @ \/ w.failed]
       /\ lastWrite' = AfterCacheWrite(arg[p], w, "CreateTask", res[p].task)
       /\ pc' = [pc EXCEPT ![p] = "done"]
       /\ UNCHANGED <<now, store, nextId, redisClient, cacheTTL, op, arg, res,
                      ref, refStore, directDeleted, callers, issued, svc, startup, http>>

\* ----------------------------------------------------------- GetTaskByID
GetTaskByID_Lookup_Touch(p, id, co) ==
    LET g == getTaskFromCache(cache, id, co)
    IN /\ Begin(p, "GetTaskByID", id)
       /\ res' = [res EXCEPT ![p] = [NoResult EXCEPT !.task = g.task]]
       /\ obs' = [obs EXCEPT ![p] =
                    [NoObs EXCEPT !.cget = g.sent, !.cfail = g.failed,
                                  !.hit = g.ok, !.lkRow = (id \in DOMAIN store),
                                  !.lk = lastWrite[id]]]
       /\ pc' = [pc EXCEPT ![p] = IF g.ok THEN "done" ELSE "get_select"]
       /\ cache' = IF g.ok
                   THEN [cache EXCEPT ![cacheKey(id)].exp = now + cacheTTL]
                   ELSE cache
       /\ UNCHANGED <<now, store, nextId, redisClient, cacheTTL, ref,
                      refStore, lastWrite, directDeleted, callers, issued, svc, startup, http>>

GetTaskByID_Lookup(p, id, co) ==
    LET g == getTaskFromCache(cache, id, co)
    IN /\ Begin(p, "GetTaskByID", id)
       /\ res' = [res EXCEPT ![p] = [NoResult EXCEPT !.task = g.task]]
       /\ obs' = [obs EXCEPT ![p] =
                    [NoObs EXCEPT !.cget = g.sent, !.cfail = g.failed,
                                  !.hit = g.ok, !.lkRow = (id \in DOMAIN store),
                                  !.lk = lastWrite[id]]]
       /\ pc' = [pc EXCEPT ![p] = IF g.ok THEN "done" ELSE "get_select"]
       /\ UNCHANGED <<now, store, nextId, redisClient, cacheTTL, cache, ref,
                      refStore, lastWrite, directDeleted, callers, issued, svc, startup, http>>

GetTaskByID_Select(p, so) ==
    LET r == SqlSelect(store, arg[p], so)
        f == RefGetTaskByID(refStore, arg[p], so)
    IN /\ pc[p] = "get_select"
       /\ res' = [res EXCEPT ![p] = [NoResult EXCEPT !.err = r.err, !.task = r.task]]
       /\ ref' = [ref EXCEPT ![p] = [NoResult EXCEPT !.err = f.err, !.task = f.task]]
       /\ obs' = [obs EXCEPT ![p] = Stmt(p, so, arg[p] \in DOMAIN store)]
       /\ pc' = [pc EXCEPT ![p] = AfterStmt(r.err, "get_fill")]
       /\ UNCHANGED <<now, store, nextId, redisClient, cacheTTL, cache, op, arg,
                      refStore, lastWrite, directDeleted, callers, issued, svc, startup, http>>

GetTaskByID_Fill(p, co) ==
    LET w == setTaskCache(cache, res[p].task, co)
    IN /\ pc[p] = "get_fill"
       /\ cache' = w.cache
       /\ obs' = [obs EXCEPT ![p].cset = @ + w.sent, ![p].cfail = @ \/ w.failed]
       /\ lastWrite' = AfterCacheWrite(arg[p], w, "GetTaskByID", res[p].task)
       /\ pc' = [pc EXCEPT ![p] = "done"]
       /\ UNCHANGED <<now, store, nextId, redisClient, cacheTTL, op, arg, res,
                      ref, refStore, directDeleted, callers, issued, svc, startup, http>>

\* ----------------------------------------------------------- GetAllTasks
GetAllTasks_Overlay(p, so) ==
    /\ Begin(p, "GetAllTasks", 0)
    /\ \E order \in SqlSelectAll(store) : \E rows \in RowsNext(order, so) :
          LET row(id) == IF cacheEnabled /\ RedisHas(cache, cacheKey(id))
                            /\ UnmarshalOk(cache[cacheKey(id)].data)
                         THEN Unmarshal(cache[cacheKey(id)].data)
                         ELSE store[id]
              tasks == [i \in DOMAIN rows |-> row(rows[i])]
              r == IF so = "err" THEN [NoResult EXCEPT !.err = StoreErr]
                   ELSE [NoResult EXCEPT !.tasks = tasks]
              f == RefGetAllTasks(refStore, rows, so)
          IN /\ res' = [res EXCEPT ![p] = r]
             /\ ref' = [ref EXCEPT ![p] = [NoResult EXCEPT !.err = f.err, !.tasks = f.tasks]]
    /\ obs' = [obs EXCEPT ![p] = Stmt(p, so, FALSE)]
    /\ pc' = [pc EXCEPT ![p] = "done"]
    /\ UNCHANGED <<now, store, nextId, redisClient, cacheTTL, cache, refStore,
                   lastWrite, directDeleted, callers, issued, svc, startup, http>>

GetAllTasks(p, so) ==
    /\ Begin(p, "GetAllTasks", 0)
    /\ \E order \in SqlSelectAll(store) : \E rows \in RowsNext(order, so) :
          LET tasks == [i \in DOMAIN rows |-> store[rows[i]]]
              r == IF so = "err" THEN [NoResult EXCEPT !.err = StoreErr]
                   ELSE [NoResult EXCEPT !.tasks = tasks]
              f == RefGetAllTasks(refStore, rows, so)
          IN /\ res' = [res EXCEPT ![p] = r]
             /\ ref' = [ref EXCEPT ![p] = [NoResult EXCEPT !.err = f.err, !.tasks = f.tasks]]
    /\ obs' = [obs EXCEPT ![p] = Stmt(p, so, FALSE)]
    /\ pc' = [pc EXCEPT ![p] = "done"]
    /\ UNCHANGED <<now, store, nextId, redisClient, cacheTTL, cache, refStore,
                   lastWrite, directDeleted, callers, issued, svc, startup, http>>

\* ---------------------------------------------------------- CompleteTask
CompleteTask_Update(p, id, so) ==
    LET r == SqlUpdate(store, id, so)
        f == RefDoneTask(refStore, id, so)
    IN /\ Begin(p, "CompleteTask", id)
       /\ store' = r.store
       /\ refStore' = f.store
       /\ res' = [res EXCEPT ![p] = [NoResult EXCEPT !.err = r.err, !.task = r.task]]
       /\ ref' = [ref EXCEPT ![p] = [NoResult EXCEPT !.err = f.err, !.task = f.task]]
       /\ obs' = [obs EXCEPT ![p] = Stmt(p, so, id \in DOMAIN store)]
       /\ pc' = [pc EXCEPT ![p] = AfterStmt(r.err, "complete_cache")]
       /\ UNCHANGED <<now, nextId, redisClient, cacheTTL, cache, lastWrite,
                      directDeleted, callers, issued, svc, startup, http>>

CompleteTask_Cache(p, co) ==
    LET w == setTaskCache(cache, res[p].task, co)
    IN /\ pc[p] = "complete_cache"
       /\ cache' = w.cache
       /\ obs' = [obs EXCEPT ![p].cset = @ + w.sent, ![p].cfail = @ \/ w.failed]
       /\ lastWrite' = AfterCacheWrite(arg[p], w, "CompleteTask", res[p].task)
       /\ pc' = [pc EXCEPT ![p] = "done"]
       /\ UNCHANGED <<now, store, nextId, redisClient, cacheTTL, op, arg, res,
                      ref, refStore, directDeleted, callers, issued, svc, startup, http>>

\* ------------------------------------------------------------ DeleteTask
DeleteResult_IgnoreErr(d) == IF d.rows = 0 THEN ErrNoRows ELSE ErrNil

DeleteResult_NotFoundFirst(d) ==
    IF d.rows = 0 THEN ErrNoRows ELSE IF d.err # ErrNil THEN d.err ELSE ErrNil

DeleteResult_ZeroRowsOk(d) == d.err

\* the error DeleteTask returns for the outcome d of its DELETE
DeleteResult(d) ==
    IF d.err # ErrNil THEN d.err
    ELSE IF d.rows = 0 THEN ErrNoRows ELSE ErrNil

DeleteTask_Exec(p, id, so) ==
    LET d == SqlDelete(store, id, so)
        f == RefDeleteTask(refStore, id, so)
        err == DeleteResult(d)
    IN /\ Begin(p, "DeleteTask", id)
       /\ store' = d.store
       /\ refStore' = f.store
       /\ res' = [res EXCEPT ![p] = [NoResult EXCEPT !.err = err]]
       /\ ref' = [ref EXCEPT ![p] = [NoResult EXCEPT !.err = f.err]]
       /\ obs' = [obs EXCEPT ![p] = Stmt(p, so, id \in DOMAIN store)]
       /\ pc' = [pc EXCEPT ![p] = AfterStmt(err, "delete_cache")]
       /\ UNCHANGED <<now, nextId, redisClient, cacheTTL, cache, lastWrite,
                      directDeleted, callers, issued, svc, startup, http>>

DeleteTask_Cache(p, co) ==
    LET w == deleteTaskCache(cache, arg[p], co)
    IN /\ pc[p] = "delete_cache"
       /\ cache' = w.cache
       /\ obs' = [obs EXCEPT ![p].cdel = @ + w.sent, ![p].cfail = @ \/ w.failed]
       /\ lastWrite' = AfterCacheWrite(arg[p], w, "DeleteTask", NilTask)
       /\ pc' = [pc EXCEPT ![p] = "done"]
       /\ UNCHANGED <<now, store, nextId, redisClient, cacheTTL, op, arg, res,
                      ref, refStore, directDeleted, callers, issued, svc, startup, http>>

\* ----------------------------------------------------------------- return
Return(p) ==
    /\ pc[p] = "done"
    /\ pc' = [pc EXCEPT ![p] = "idle"]
    /\ op' = [op EXCEPT ![p] = ""]
    /\ arg' = [arg EXCEPT ![p] = 0]
    /\ res' = [res EXCEPT ![p] = NoResult]
    /\ obs' = [obs EXCEPT ![p] = NoObs]
    /\ ref' = [ref EXCEPT ![p] = NoRef]
    /\ UNCHANGED <<now, store, nextId, redisClient, cacheTTL, cache, refStore,
                   lastWrite, directDeleted, callers, issued, svc, startup, http>>

\* ------------------------------------------------------------ environment
\* time passes; Redis drops the entries whose TTL has run out
Tick ==
    /\ now < MaxTime
    /\ now' = now + 1
    /\ cache' = [k \in {x \in DOMAIN cache : Alive(cache[x], now + 1)} |-> cache[k]]
    /\ lastWrite' = [i \in Ids |->
                       IF lastWrite[i].op = "DeleteTask" THEN Deleted
                       ELSE IF lastWrite[i].op \notin {"", "expired"}
                               /\ now + 1 >= lastWrite[i].at + cacheTTL
                       THEN Expired ELSE lastWrite[i]]
    /\ UNCHANGED <<store, nextId, redisClient, cacheTTL, pc, op, arg, res, obs,
                   ref, refStore, directDeleted, callers, issued, svc, startup, http>>

\* DELETE FROM tasks WHERE id = $1 issued on the database directly
DirectDelete(id) ==
    /\ id \in DOMAIN store
    /\ store' = Remove(store, id)
    /\ refStore' = Remove(refStore, id)
    /\ directDeleted' = directDeleted \cup {id}
    /\ UNCHANGED <<now, nextId, redisClient, cacheTTL, cache, pc, op, arg, res,
                   obs, ref, lastWrite, callers, issued, svc, startup, http>>

\* a value that is not a task snapshot appears under the id's key
CorruptEntry(id) ==
    /\ cacheEnabled
    /\ cacheKey(id) \in DOMAIN cache
    /\ UnmarshalOk(cache[cacheKey(id)].data)
    /\ cache' = [cache EXCEPT ![cacheKey(id)].data = Garbage]
    /\ lastWrite' = [lastWrite EXCEPT ![id].op = "garbage", ![id].task = NilTask]
    /\ UNCHANGED <<now, store, nextId, redisClient, cacheTTL, pc, op, arg, res,
                   obs, ref, refStore, directDeleted, callers, issued, svc, startup, http>>

\* ------------------------------------------------- TaskService, TaskServer
\* A title is the sequence of its characters; the titles used are ASCII, so
\* len (bytes) is the number of characters.
MaxTitleLen == 255

Whitespace == {" ", "\t", "\n", "\r"}

RECURSIVE TrimLeft(_)
TrimLeft(t) == IF t # <<>> /\ Head(t) \in Whitespace THEN TrimLeft(Tail(t)) ELSE t

RECURSIVE TrimRight(_)
TrimRight(t) == IF t # <<>> /\ t[Len(t)] \in Whitespace
                THEN TrimRight(SubSeq(t, 1, Len(t) - 1)) ELSE t

TrimSpace(t) == TrimRight(TrimLeft(t))

len(t) == Len(t)

ErrEmptyTitle   == "title can not be empty"
ErrTitleTooLong == "title too long, maximum 255 characters"
ErrInvalidTaskId == "invalid task id"
ErrInvalidId    == "invalid id"
ErrTaskNotFound == "task not found"
ErrInternal     == "internal server error"
ErrAlreadyCompleted == "task already completed"
ErrFailedToFind == "failed to find task"

\* the checks of TaskService.CreateTask before it calls the repository
ValidateCreate_NoLengthCheck(req) ==
    IF TrimSpace(req.title) = <<>> THEN ErrEmptyTitle ELSE ErrNil

ValidateCreate(req) ==
    IF TrimSpace(req.title) = <<>> THEN ErrEmptyTitle
    ELSE IF len(req.title) > MaxTitleLen THEN ErrTitleTooLong
    ELSE ErrNil

\* if id <= 0 { return errors.New(msg) }
ValidateId(id, msg) == IF id <= 0 THEN msg ELSE ErrNil

\* TaskService.GetTaskByID: the error made of the repository's error
GetError(err) ==
    IF err = ErrNil THEN ErrNil
    ELSE IF err = ErrNoRows THEN ErrTaskNotFound ELSE ErrInternal

\* TaskService.DeleteTask: the error made of the preliminary lookup's error
FindError_PassThrough(err) == err

FindError(err) == IF err = ErrNil THEN ErrNil ELSE ErrFailedToFind

Status(code, msg) == [code |-> code, msg |-> msg]

\* the switch err.Error() of each TaskServer handler
Server_CreateTask(err) ==
    IF err = ErrNil THEN Status(OK, "")
    ELSE IF err = ErrEmptyTitle THEN Status(InvalidArgument, "title can not be empty")
    ELSE IF err = ErrTitleTooLong
         THEN Status(InvalidArgument, "title to long, maximum 255 characters")
    ELSE Status(Internal, "internal server error")

Server_GetTaskByID(err) ==
    IF err = ErrNil THEN Status(OK, "")
    ELSE IF err = ErrInvalidTaskId THEN Status(InvalidArgument, "invalid task id")
    ELSE IF err = ErrTaskNotFound THEN Status(NotFound, "task not found")
    ELSE Status(Internal, "internal server error")

Server_GetAllTasks(err) ==
    IF err = ErrNil THEN Status(OK, "")
    ELSE Status(Internal, "internal server error")

Server_CompleteTask_NoPrecondition(err) ==
    IF err = ErrNil THEN Status(OK, "")
    ELSE IF err = ErrInvalidTaskId THEN Status(InvalidArgument, "invalid task id")
    ELSE IF err = ErrTaskNotFound THEN Status(NotFound, "task not found")
    ELSE Status(Internal, "internal server error")

Server_CompleteTask(err) ==
    IF err = ErrNil THEN Status(OK, "")
    ELSE IF err = ErrInvalidTaskId THEN Status(InvalidArgument, "invalid task id")
    ELSE IF err = ErrTaskNotFound THEN Status(NotFound, "task not found")
    ELSE IF err = ErrAlreadyCompleted
         THEN Status(FailedPrecondition, "task already completed")
    ELSE Status(Internal, "internal server error")

Server_DeleteTask(err) ==
    IF err = ErrNil THEN Status(OK, "")
    ELSE IF err = ErrInvalidId THEN Status(InvalidArgument, "invalid id")
    ELSE IF err = ErrFailedToFind THEN Status(NotFound, "task not found")
    ELSE Status(Internal, "internal server error")

backendVars == <<now, store, nextId, redisClient, cacheTTL, cache, refStore,
                 lastWrite, directDeleted, callers, issued, startup, http>>

callVars == <<pc, op, arg, res, obs, ref>>

\* the handler of caller p answers: the service returned err (and a task or
\* tasks), the server turned it into the status st
Answer(p, err, st, task, tasks) ==
    svc' = [svc EXCEPT ![p] =
              [@ EXCEPT !.stage = "returned", !.err = err,
                        !.task = IF err = ErrNil THEN task ELSE NilTask,
                        !.tasks = IF err = ErrNil THEN tasks ELSE <<>>,
                        !.resp = IF err = ErrNil THEN "response" ELSE "nil",
                        !.code = st.code, !.msg = st.msg]]

\* a call to TaskServer arrives
Enter(p, name, id, req) ==
    [NoCall EXCEPT !.op = name, !.id = id, !.req = req]

\* the repository method that caller p ran has returned to the service
RepoReturned(p, name) ==
    /\ pc[p] = "done" /\ op[p] = name
    /\ pc' = [pc EXCEPT ![p] = "idle"]
    /\ op' = [op EXCEPT ![p] = ""]
    /\ arg' = [arg EXCEPT ![p] = 0]
    /\ res' = [res EXCEPT ![p] = NoResult]
    /\ obs' = [obs EXCEPT ![p] = NoObs]
    /\ ref' = [ref EXCEPT ![p] = NoRef]

Arrives(p) == p \in callers /\ svc[p].stage = "idle" /\ pc[p] = "idle"

In(p, name, stage) == svc[p].op = name /\ svc[p].stage = stage

\* ---- CreateTask
Service_CreateTask(p, req) ==
    LET e == ValidateCreate(req)
        c == Enter(p, "CreateTask", 0, req)
    IN /\ Arrives(p)
       /\ svc' = [svc EXCEPT ![p] =
                    IF e # ErrNil
                    THEN [c EXCEPT !.stage = "returned", !.err = e, !.resp = "nil",
                                   !.code = Server_CreateTask(e).code,
                                   !.msg = Server_CreateTask(e).msg]
                    ELSE [c EXCEPT !.stage = "call", !.calls = <<"CreateTask">>]]
       /\ UNCHANGED <<backendVars, callVars>>

Service_CreateTask_Return(p) ==
    /\ In(p, "CreateTask", "call")
    /\ RepoReturned(p, "CreateTask")
    /\ Answer(p, res[p].err, Server_CreateTask(res[p].err), res[p].task, <<>>)
    /\ UNCHANGED backendVars

\* ---- GetTaskByID
Service_GetTaskByID(p, id) ==
    LET e == ValidateId(id, ErrInvalidTaskId)
        c == Enter(p, "GetTaskByID", id, NoReq)
    IN /\ Arrives(p)
       /\ svc' = [svc EXCEPT ![p] =
                    IF e # ErrNil
                    THEN [c EXCEPT !.stage = "returned", !.err = e, !.resp = "nil",
                                   !.code = Server_GetTaskByID(e).code,
                                   !.msg = Server_GetTaskByID(e).msg]
                    ELSE [c EXCEPT !.stage = "call", !.calls = <<"GetTaskByID">>]]
       /\ UNCHANGED <<backendVars, callVars>>

Service_GetTaskByID_Return(p) ==
    LET e == GetError(res[p].err)
    IN /\ In(p, "GetTaskByID", "call")
       /\ RepoReturned(p, "GetTaskByID")
       /\ Answer(p, e, Server_GetTaskByID(e), res[p].task, <<>>)
       /\ UNCHANGED backendVars

\* ---- GetAllTasks
Service_GetAllTasks(p) ==
    /\ Arrives(p)
    /\ svc' = [svc EXCEPT ![p] =
                 [Enter(p, "GetAllTasks", 0, NoReq)
                    EXCEPT !.stage = "call", !.calls = <<"GetAllTasks">>]]
    /\ UNCHANGED <<backendVars, callVars>>

Service_GetAllTasks_Return(p) ==
    LET e == IF res[p].err # ErrNil THEN ErrInternal ELSE ErrNil
    IN /\ In(p, "GetAllTasks", "call")
       /\ RepoReturned(p, "GetAllTasks")
       /\ Answer(p, e, Server_GetAllTasks(e), NilTask, res[p].tasks)
       /\ UNCHANGED backendVars

\* ---- CompleteTask
Service_CompleteTask(p, id) ==
    LET e == ValidateId(id, ErrInvalidTaskId)
        c == Enter(p, "CompleteTask", id, NoReq)
    IN /\ Arrives(p)
       /\ svc' = [svc EXCEPT ![p] =
                    IF e # ErrNil
                    THEN [c EXCEPT !.stage = "returned", !.err = e, !.resp = "nil",
                                   !.code = Server_CompleteTask(e).code,
                                   !.msg = Server_CompleteTask(e).msg]
                    ELSE [c EXCEPT !.stage = "get", !.calls = <<"GetTaskByID">>]]
       /\ UNCHANGED <<backendVars, callVars>>

\* TaskService.CompleteTask: the error made of the preliminary lookup r
CompleteCheck_NoCompletedCheck(r) == r.err

CompleteCheck(r) ==
    IF r.err # ErrNil THEN r.err
    ELSE IF r.task.completed THEN ErrAlreadyCompleted
    ELSE ErrNil

\* task, err := t.repo.GetTaskByID(id) has returned
Service_CompleteTask_Found(p) ==
    LET e == CompleteCheck(res[p])
    IN /\ In(p, "CompleteTask", "get")
       /\ RepoReturned(p, "GetTaskByID")
       /\ IF e # ErrNil
          THEN svc' = [svc EXCEPT ![p] =
                         [@ EXCEPT !.stage = "returned", !.err = e, !.resp = "nil",
                                   !.got = res[p].task, !.goterr = res[p].err,
                                   !.hit = obs[p].hit,
                                   !.code = Server_CompleteTask(e).code,
                                   !.msg = Server_CompleteTask(e).msg]]
          ELSE svc' = [svc EXCEPT ![p] =
                         [@ EXCEPT !.stage = "call", !.got = res[p].task, !.goterr = res[p].err,
                                   !.hit = obs[p].hit,
                                   !.calls = Append(@, "CompleteTask")]]
       /\ UNCHANGED backendVars

Service_CompleteTask_Return(p) ==
    /\ In(p, "CompleteTask", "call")
    /\ RepoReturned(p, "CompleteTask")
    /\ Answer(p, res[p].err, Server_CompleteTask(res[p].err), res[p].task, <<>>)
    /\ UNCHANGED backendVars

\* ---- DeleteTask
Service_DeleteTask(p, id) ==
    LET e == ValidateId(id, ErrInvalidId)
        c == Enter(p, "DeleteTask", id, NoReq)
    IN /\ Arrives(p)
       /\ svc' = [svc EXCEPT ![p] =
                    IF e # ErrNil
                    THEN [c EXCEPT !.stage = "returned", !.err = e, !.resp = "nil",
                                   !.code = Server_DeleteTask(e).code,
                                   !.msg = Server_DeleteTask(e).msg]
                    ELSE [c EXCEPT !.stage = "get", !.calls = <<"GetTaskByID">>]]
       /\ UNCHANGED <<backendVars, callVars>>

Service_DeleteTask_Found(p) ==
    LET e == FindError(res[p].err)
    IN /\ In(p, "DeleteTask", "get")
       /\ RepoReturned(p, "GetTaskByID")
       /\ IF e # ErrNil
          THEN svc' = [svc EXCEPT ![p] =
                         [@ EXCEPT !.stage = "returned", !.err = e, !.resp = "nil",
                                   !.got = res[p].task, !.goterr = res[p].err,
                                   !.hit = obs[p].hit,
                                   !.code = Server_DeleteTask(e).code,
                                   !.msg = Server_DeleteTask(e).msg]]
          ELSE svc' = [svc EXCEPT ![p] =
                         [@ EXCEPT !.stage = "call", !.got = res[p].task, !.goterr = res[p].err,
                                   !.hit = obs[p].hit,
                                   !.calls = Append(@, "DeleteTask")]]
       /\ UNCHANGED backendVars

Service_DeleteTask_Return(p) ==
    /\ In(p, "DeleteTask", "call")
    /\ RepoReturned(p, "DeleteTask")
    /\ Answer(p, res[p].err, Server_DeleteTask(res[p].err), NilTask, <<>>)
    /\ UNCHANGED backendVars

\* the answer has reached the client
Answered(p) ==
    /\ svc[p].stage = "returned"
    /\ svc' = [svc EXCEPT ![p] = NoCall]
    /\ UNCHANGED <<backendVars, callVars>>

\* ---- the repository methods as the service calls them
Repo_CreateTask(p, so) ==
    In(p, "CreateTask", "call") /\ CreateTask_Insert(p, svc[p].req, so)

Repo_GetTaskByID(p, co) ==
    /\ \/ In(p, "GetTaskByID", "call")
       \/ In(p, "CompleteTask", "get")
       \/ In(p, "DeleteTask", "get")
    /\ GetTaskByID_Lookup(p, svc[p].id, co)

Repo_GetAllTasks(p, so) ==
    In(p, "GetAllTasks", "call") /\ GetAllTasks(p, so)

Repo_CompleteTask(p, so) ==
    In(p, "CompleteTask", "call") /\ CompleteTask_Update(p, svc[p].id, so)

Repo_DeleteTask(p, so) ==
    In(p, "DeleteTask", "call") /\ DeleteTask_Exec(p, svc[p].id, so)

\* ------------------------------------------------- api-service, TaskHandler
Handlers == {"CreateTask", "ListTasks", "DeleteTask", "CompleteTask"}

Methods == {"POST", "GET", "DELETE", "PUT"}

\* the method each handler accepts
MethodOf(h) ==
    IF h = "CreateTask" THEN "POST"
    ELSE IF h = "ListTasks" THEN "GET"
    ELSE IF h = "DeleteTask" THEN "DELETE"
    ELSE "PUT"

\* what the gRPC client returns: success, a gRPC status of some code, or an
\* error that carries no gRPC status
GrpcResults == {OK, InvalidArgument, NotFound, FailedPrecondition, Internal,
                "Unavailable", "non-grpc"}

\* Producer.Send: the event is marshalled and written, or one of the two fails
PublishOutcomes == {"ok", "marshal_err", "write_err"}

Reply(status, out) == [status |-> status, out |-> out]

handleGrpcError_NoConflict(err) ==
    IF err = "non-grpc" THEN Reply(500, "Internal server error")
    ELSE IF err = InvalidArgument THEN Reply(400, "st.Message")
    ELSE IF err = NotFound THEN Reply(404, "st.Message")
    ELSE Reply(500, "Internal server error")

\* handleGrpcError: the reply written for the backend error err
handleGrpcError(err) ==
    IF err = "non-grpc" THEN Reply(500, "Internal server error")
    ELSE IF err = InvalidArgument THEN Reply(400, "st.Message")
    ELSE IF err = NotFound THEN Reply(404, "st.Message")
    ELSE IF err = FailedPrecondition THEN Reply(409, "st.Message")
    ELSE Reply(500, "Internal server error")

\* the reply of handler h to the backend error err
ErrorReply(h, err) ==
    IF h = "ListTasks" THEN Reply(500, "Failed to get tasks")
    ELSE handleGrpcError(err)

SuccessReply_FailOnSendError(h, so) ==
    IF so # "ok" THEN Reply(500, "Internal server error")
    ELSE IF h = "CreateTask" THEN Reply(201, "task")
    ELSE IF h = "ListTasks" THEN Reply(200, "tasks")
    ELSE IF h = "DeleteTask" THEN Reply(200, "Task deleted successfully")
    ELSE Reply(200, "task")

\* the reply of handler h after the backend call succeeded and Send
\* returned with outcome so
SuccessReply(h, so) ==
    IF h = "CreateTask" THEN Reply(201, "task")
    ELSE IF h = "ListTasks" THEN Reply(200, "tasks")
    ELSE IF h = "DeleteTask" THEN Reply(200, "Task deleted successfully")
    ELSE Reply(200, "task")

serverVars == <<now, store, nextId, redisClient, cacheTTL, cache, pc, op, arg,
                res, obs, ref, refStore, lastWrite, directDeleted, callers,
                issued, svc, startup>>

Responds(r, reply) ==
    [r EXCEPT !.stage = "responded", !.status = reply.status, !.out = reply.out]

\* a request reaches handler h: method check, JSON decoding, req.Validate()
Http_Request(h, m, body, valid) ==
    LET r == [NoHttp EXCEPT !.handler = h, !.method = m, !.body = body,
                            !.valid = valid]
    IN /\ http.stage = "idle"
       /\ http' = IF m # MethodOf(h)
                  THEN Responds(r, Reply(405, "Method not allowed"))
                  ELSE IF h # "ListTasks" /\ body # "json"
                  THEN Responds(r, Reply(400, "Invalid JSON format"))
                  ELSE IF h # "ListTasks" /\ ~valid
                  THEN Responds(r, Reply(400, "err.Error"))
                  ELSE [r EXCEPT !.stage = "backend"]
       /\ UNCHANGED serverVars

\* h.grpcClient's call returns g
Http_Backend(g) ==
    /\ http.stage = "backend"
    /\ http' = IF g # OK
               THEN Responds([http EXCEPT !.backend = g],
                             ErrorReply(http.handler, g))
               ELSE [http EXCEPT !.backend = g, !.stage = "publish"]
    /\ UNCHANGED serverVars

\* h.producer.Send returns with outcome so; the response is written
Http_Publish(so) ==
    /\ http.stage = "publish"
    /\ http' = Responds([http EXCEPT !.sends = @ + 1,
                                     !.events = IF so = "ok" THEN @ + 1 ELSE @,
                                     !.sendErr = (so # "ok")],
                        SuccessReply(http.handler, so))
    /\ UNCHANGED serverVars

\* the handler has returned
Http_Finish ==
    /\ http.stage = "responded"
    /\ http' = NoHttp
    /\ UNCHANGED serverVars

\* ---------------------------------------------------------------- Next
Reqs == [title : Titles, description : Descriptions]

StoreOutcomes  == {"ok", "err"}
ScanOutcomes   == {"ok", "err", "iter_err"}
DeleteOutcomes == {"ok", "err", "rows_err"}
GetOutcomes    == {"ok", "err"}
SetOutcomes    == {"ok", "err", "marshal_err"}
DelOutcomes    == {"ok", "err"}

\* every outcome of every statement and command
Next ==
    \/ \E p \in Procs, req \in Reqs, so \in StoreOutcomes : CreateTask_Insert(p, req, so)
    \/ \E p \in Procs, co \in SetOutcomes : CreateTask_Cache(p, co)
    \/ \E p \in Procs, id \in Ids, co \in GetOutcomes : GetTaskByID_Lookup(p, id, co)
    \/ \E p \in Procs, so \in StoreOutcomes : GetTaskByID_Select(p, so)
    \/ \E p \in Procs, co \in SetOutcomes : GetTaskByID_Fill(p, co)
    \/ \E p \in Procs, so \in ScanOutcomes : GetAllTasks(p, so)
    \/ \E p \in Procs, id \in Ids, so \in StoreOutcomes : CompleteTask_Update(p, id, so)
    \/ \E p \in Procs, co \in SetOutcomes : CompleteTask_Cache(p, co)
    \/ \E p \in Procs, id \in Ids, so \in DeleteOutcomes : DeleteTask_Exec(p, id, so)
    \/ \E p \in Procs, co \in DelOutcomes : DeleteTask_Cache(p, co)
    \/ \E p \in Procs : Return(p)
    \/ Tick
    \/ \E id \in Ids : DirectDelete(id)
    \/ \E id \in Ids : CorruptEntry(id)

\* store and cache answer every request; nothing but the repository acts
NextRepo ==
    \/ \E p \in Procs, req \in Reqs : CreateTask_Insert(p, req, "ok")
    \/ \E p \in Procs : CreateTask_Cache(p, "ok")
    \/ \E p \in Procs, id \in Ids : GetTaskByID_Lookup(p, id, "ok")
    \/ \E p \in Procs : GetTaskByID_Select(p, "ok")
    \/ \E p \in Procs : GetTaskByID_Fill(p, "ok")
    \/ \E p \in Procs : GetAllTasks(p, "ok")
    \/ \E p \in Procs, id \in Ids : CompleteTask_Update(p, id, "ok")
    \/ \E p \in Procs : CompleteTask_Cache(p, "ok")
    \/ \E p \in Procs, id \in Ids : DeleteTask_Exec(p, id, "ok")
    \/ \E p \in Procs : DeleteTask_Cache(p, "ok")
    \/ \E p \in Procs : Return(p)
    \/ Tick

\* the cache is disabled: no Redis to fail or to tamper with
NextOff ==
    \/ \E p \in Procs, req \in Reqs, so \in StoreOutcomes : CreateTask_Insert(p, req, so)
    \/ \E p \in Procs : CreateTask_Cache(p, "ok")
    \/ \E p \in Procs, id \in Ids : GetTaskByID_Lookup(p, id, "ok")
    \/ \E p \in Procs, so \in StoreOutcomes : GetTaskByID_Select(p, so)
    \/ \E p \in Procs : GetTaskByID_Fill(p, "ok")
    \/ \E p \in Procs, so \in ScanOutcomes : GetAllTasks(p, so)
    \/ \E p \in Procs, id \in Ids, so \in StoreOutcomes : CompleteTask_Update(p, id, so)
    \/ \E p \in Procs : CompleteTask_Cache(p, "ok")
    \/ \E p \in Procs, id \in Ids, so \in DeleteOutcomes : DeleteTask_Exec(p, id, so)
    \/ \E p \in Procs : DeleteTask_Cache(p, "ok")
    \/ \E p \in Procs : Return(p)
    \/ Tick
    \/ \E id \in Ids : DirectDelete(id)

\* tasks of several titles and descriptions are created and read
WideTitles       == {"A", "B"}
WideDescriptions == {"", "d"}
WideReqs == [title : WideTitles, description : WideDescriptions]

NextCreate ==
    \/ \E p \in Procs, req \in WideReqs, so \in StoreOutcomes : CreateTask_Insert(p, req, so)
    \/ \E p \in Procs, co \in SetOutcomes : CreateTask_Cache(p, co)
    \/ \E p \in Procs, id \in Ids : GetTaskByID_Lookup(p, id, "ok")
    \/ \E p \in Procs : GetTaskByID_Select(p, "ok")
    \/ \E p \in Procs : GetTaskByID_Fill(p, "ok")
    \/ \E p \in Procs : GetAllTasks(p, "ok")
    \/ \E p \in Procs : Return(p)
    \/ Tick

\* requests as they reach TaskServer: titles that are empty, blank, short,
\* of the greatest length allowed and one character longer; ids that are
\* not positive
LongestTitle == [i \in 1 .. MaxTitleLen |-> "x"]
SvcTitles == {<<>>, <<" ">>, <<"A">>, LongestTitle, Append(LongestTitle, "x")}
SvcReqs   == [title : SvcTitles, description : Descriptions]
SvcIds    == {-1, 0} \cup Ids

\* one client calls TaskServer; the store can fail, Redis answers
NextSvc ==
    \/ \E p \in Procs, req \in SvcReqs : Service_CreateTask(p, req)
    \/ \E p \in Procs, so \in StoreOutcomes : Repo_CreateTask(p, so)
    \/ \E p \in Procs : CreateTask_Cache(p, "ok")
    \/ \E p \in Procs : Service_CreateTask_Return(p)
    \/ \E p \in Procs, id \in SvcIds : Service_GetTaskByID(p, id)
    \/ \E p \in Procs : Repo_GetTaskByID(p, "ok")
    \/ \E p \in Procs, so \in StoreOutcomes : GetTaskByID_Select(p, so)
    \/ \E p \in Procs : GetTaskByID_Fill(p, "ok")
    \/ \E p \in Procs : Service_GetTaskByID_Return(p)
    \/ \E p \in Procs : Service_GetAllTasks(p)
    \/ \E p \in Procs, so \in ScanOutcomes : Repo_GetAllTasks(p, so)
    \/ \E p \in Procs : Service_GetAllTasks_Return(p)
    \/ \E p \in Procs, id \in SvcIds : Service_CompleteTask(p, id)
    \/ \E p \in Procs : Service_CompleteTask_Found(p)
    \/ \E p \in Procs, so \in StoreOutcomes : Repo_CompleteTask(p, so)
    \/ \E p \in Procs : CompleteTask_Cache(p, "ok")
    \/ \E p \in Procs : Service_CompleteTask_Return(p)
    \/ \E p \in Procs, id \in SvcIds : Service_DeleteTask(p, id)
    \/ \E p \in Procs : Service_DeleteTask_Found(p)
    \/ \E p \in Procs, so \in DeleteOutcomes : Repo_DeleteTask(p, so)
    \/ \E p \in Procs : DeleteTask_Cache(p, "ok")
    \/ \E p \in Procs : Service_DeleteTask_Return(p)
    \/ \E p \in Procs : Answered(p)
    \/ Tick
    \/ \E id \in Ids : DirectDelete(id)

\* two clients create and complete tasks at once; store and Redis answer
NextSvcConc ==
    \/ \E p \in Procs : Service_CreateTask(p, [title |-> <<"A">>, description |-> "d"])
    \/ \E p \in Procs : Repo_CreateTask(p, "ok")
    \/ \E p \in Procs : CreateTask_Cache(p, "ok")
    \/ \E p \in Procs : Service_CreateTask_Return(p)
    \/ \E p \in Procs, id \in Ids : Service_CompleteTask(p, id)
    \/ \E p \in Procs : Repo_GetTaskByID(p, "ok")
    \/ \E p \in Procs : GetTaskByID_Select(p, "ok")
    \/ \E p \in Procs : GetTaskByID_Fill(p, "ok")
    \/ \E p \in Procs : Service_CompleteTask_Found(p)
    \/ \E p \in Procs : Repo_CompleteTask(p, "ok")
    \/ \E p \in Procs : CompleteTask_Cache(p, "ok")
    \/ \E p \in Procs : Service_CompleteTask_Return(p)
    \/ \E p \in Procs : Answered(p)
    \/ Tick

\* the api-service serves HTTP requests; its backend is whatever the gRPC
\* client returns
NextHttp ==
    \/ \E h \in Handlers, m \in Methods, body \in {"json", "garbage"},
          valid \in BOOLEAN : Http_Request(h, m, body, valid)
    \/ \E g \in GrpcResults : Http_Backend(g)
    \/ \E so \in PublishOutcomes : Http_Publish(so)
    \/ Http_Finish

Spec     == Init /\ [][Next]_vars
SpecRepo == InitConc /\ [][NextRepo]_vars
SpecOff  == InitOff /\ [][NextOff]_vars
SpecAny  == InitAny /\ [][Next]_vars
SpecLong == InitLong /\ [][NextRepo]_vars
SpecCreate == Init /\ [][NextCreate]_vars
SpecSvc  == Init /\ [][NextSvc]_vars
SpecSvcConc == InitConc /\ [][NextSvcConc]_vars
SpecHttp == Init /\ [][NextHttp]_vars

\* ---------------------------------------------------------------- claims
Done(p, name) == pc[p] = "done" /\ op[p] = name

Cached(id) == RedisHas(cache, cacheKey(id))

CachedTask(id) == Unmarshal(cache[cacheKey(id)].data)

LiveWriters == {"CreateTask", "GetTaskByID", "CompleteTask"}

\* no call on the id is between its store statement and its cache write
Settled(id) == \A p \in Procs : arg[p] = id => pc[p] \in {"idle", "done"}

\* C1: under every interleaving of the repository's operations, whenever no
\* call on an id is in flight, an entry that is present in the cache for the
\* id equals the row image the repository most recently wrote to or read from
\* the store for that id. (Only the repository changes the table here, so
\* that image is the id's current row.)
C1_CacheEqualsLastStoreValue ==
    \A id \in Ids :
        (Settled(id) /\ Cached(id))
        => id \in DOMAIN store /\ CachedTask(id) = store[id]

\* C2: a GetTaskByID whose lookup finds the entry that CreateTask or a
\* GetTaskByID miss wrote, within its TTL, after the row was deleted directly
\* on the database, returns the cached task unchanged and no error, and
\* runs no store statement.
C2_StaleServedWithinTTL ==
    \A p \in Procs :
        ( /\ Done(p, "GetTaskByID")
          /\ arg[p] \in directDeleted
          /\ ~obs[p].lkRow
          /\ ~obs[p].cfail
          /\ obs[p].lk.op \in {"CreateTask", "GetTaskByID"} )
        => /\ res[p].err = ErrNil
           /\ res[p].task = obs[p].lk.task
           /\ obs[p].stmts = 0

C2_Witness ==
    \E p \in Procs :
        /\ Done(p, "GetTaskByID")
        /\ arg[p] \in directDeleted
        /\ ~obs[p].lkRow
        /\ ~obs[p].cfail
        /\ obs[p].lk.op = "GetTaskByID"
        /\ res[p].task.title = "A"

\* C3: when the last write to an id's key is the one of a successful
\* CreateTask, the entry holds the task CreateTask returned, and a GetTaskByID
\* that follows returns a task equal to it in every field, from the cache,
\* without a store statement.
C3_GetAfterCreateFromCache ==
    \A p \in Procs :
        /\ ( /\ Done(p, "CreateTask")
             /\ res[p].err = ErrNil
             /\ lastWrite[arg[p]].op = "CreateTask" )
           => /\ Cached(arg[p])
              /\ CachedTask(arg[p]) = res[p].task
              /\ lastWrite[arg[p]].task = res[p].task
        /\ ( /\ Done(p, "GetTaskByID")
             /\ ~obs[p].cfail
             /\ obs[p].lk.op = "CreateTask" )
           => /\ res[p].err = ErrNil
              /\ res[p].task = obs[p].lk.task
              /\ res[p].task.id = arg[p]
              /\ obs[p].hit
              /\ obs[p].stmts = 0

C3_Witness ==
    \E p \in Procs :
        /\ Done(p, "GetTaskByID")
        /\ ~obs[p].cfail
        /\ obs[p].lk.op = "CreateTask"
        /\ arg[p] \in DOMAIN store
        /\ res[p].task = store[arg[p]]

\* C4: after a DeleteTask that succeeded and whose cache deletion went
\* through, with no later write to the id's key, the cache holds no entry for
\* the id, and the next GetTaskByID reads the store and returns sql.ErrNoRows,
\* at once.
C4_DeleteEvictsEntry ==
    \A p \in Procs :
        /\ ( /\ Done(p, "DeleteTask")
             /\ res[p].err = ErrNil
             /\ ~obs[p].cfail
             /\ lastWrite[arg[p]].op = "DeleteTask" )
           => ~Cached(arg[p])
        /\ ( /\ Done(p, "GetTaskByID")
             /\ obs[p].lk.op = "DeleteTask"
             /\ ~obs[p].sfail )
           => /\ res[p].err = ErrNoRows
              /\ ~obs[p].hit
              /\ obs[p].stmts = 1

C4_Witness ==
    \E p \in Procs :
        /\ Done(p, "GetTaskByID")
        /\ obs[p].lk.op = "DeleteTask"
        /\ obs[p].lk.at = now
        /\ ~obs[p].sfail
        /\ res[p].err = ErrNoRows

\* C5: for an id without a store row, a GetTaskByID that is issued once the
\* TTL of the last write to the id's key has run out returns sql.ErrNoRows;
\* and no GetTaskByID is served from the cache unless a write to the key is
\* still within its TTL.
C5_NotFoundAfterExpiry ==
    \A p \in Procs :
        /\ ( /\ Done(p, "GetTaskByID")
             /\ obs[p].lk.op = "expired"
             /\ ~obs[p].lkRow
             /\ ~obs[p].sfail )
           => res[p].err = ErrNoRows
        /\ ( Done(p, "GetTaskByID") /\ obs[p].hit )
           => obs[p].lk.op \in LiveWriters

C5_Witness ==
    \E p \in Procs :
        /\ Done(p, "GetTaskByID")
        /\ obs[p].lk.op = "expired"
        /\ arg[p] \in directDeleted
        /\ res[p].err = ErrNoRows

\* C6: with the cache disabled (no client, or TTL <= 0) every operation
\* returns what the store-only repository returns, leaves the table as the
\* store-only repository leaves it, and sends no cache command.
C6_DisabledIsStoreOnly ==
    /\ cache = <<>>
    /\ refStore = store
    /\ \A p \in Procs :
          /\ obs[p].cget = 0 /\ obs[p].cset = 0 /\ obs[p].cdel = 0
          /\ pc[p] = "done" => res[p] = ref[p]

C6_Witness ==
    \E p \in Procs :
        /\ Done(p, "GetTaskByID")
        /\ redisClient = "client"
        /\ cacheTTL = 0
        /\ res[p].err = ErrNil
        /\ res[p].task.completed

\* C7: an operation during which a cache get, set or delete failed (or the
\* entry could not be decoded) returns the value and the error of the
\* store-only repository on the same table.
C7_CacheFailureNotPropagated ==
    \A p \in Procs :
        (pc[p] = "done" /\ obs[p].cfail)
        => /\ res[p] = ref[p]
           /\ res[p].err \in {ErrNil, ErrNoRows, StoreErr}

C7_Witness ==
    \E p \in Procs :
        /\ Done(p, "GetTaskByID")
        /\ obs[p].cfail
        /\ obs[p].lk.op = "garbage"
        /\ res[p].err = ErrNil
        /\ res[p].task.id = arg[p]

\* C8: an operation whose store statement failed with an error other than
\* not-found returns that error and no task, has executed one statement, and
\* has sent no cache write.
C8_StoreErrorPropagated ==
    \A p \in Procs :
        (pc[p] = "done" /\ obs[p].sfail)
        => /\ res[p].err = StoreErr
           /\ res[p].task = NilTask
           /\ res[p].tasks = <<>>
           /\ obs[p].stmts = 1
           /\ obs[p].cset = 0
           /\ obs[p].cdel = 0

\* C9: GetTaskByID, CompleteTask and DeleteTask return sql.ErrNoRows only
\* when the one store statement they executed found no row for the id.
C9_NotFoundOnlyFromStore ==
    \A p \in Procs :
        (pc[p] = "done" /\ res[p].err = ErrNoRows)
        => /\ op[p] \in {"GetTaskByID", "CompleteTask", "DeleteTask"}
           /\ obs[p].stmts = 1
           /\ ~obs[p].sfail
           /\ ~obs[p].hadRow

C9_Witness ==
    \E p \in Procs :
        /\ Done(p, "GetTaskByID")
        /\ res[p].err = ErrNoRows
        /\ obs[p].cfail
        /\ ~obs[p].hadRow

\* C10: a GetTaskByID for an id that has no entry in the cache and no row in
\* the store returns sql.ErrNoRows and writes nothing to the cache; one that
\* finds the row in the store returns the row.
C10_NoNegativeCaching ==
    \A p \in Procs :
        /\ ( /\ Done(p, "GetTaskByID")
             /\ obs[p].lk.op \in {"", "expired", "DeleteTask"}
             /\ obs[p].stmts = 1
             /\ ~obs[p].hadRow
             /\ ~obs[p].sfail )
           => /\ res[p].err = ErrNoRows
              /\ obs[p].cset = 0
              /\ ~Cached(arg[p])
        /\ ( /\ Done(p, "GetTaskByID")
             /\ obs[p].stmts = 1
             /\ obs[p].hadRow
             /\ ~obs[p].sfail )
           => /\ res[p].err = ErrNil
              /\ res[p].task.id = arg[p]

C10_Witness ==
    \E p \in Procs :
        /\ Done(p, "GetTaskByID")
        /\ obs[p].lk.op = ""
        /\ arg[p] = nextId
        /\ res[p].err = ErrNoRows
        /\ ~Cached(arg[p])

\* the step in which caller p enters method name and runs its first statement
Starts(p, name) == pc[p] = "idle" /\ pc'[p] # "idle" /\ op'[p] = name

\* p's CompleteTask runs its UPDATE on an existing, uncompleted row
CompletesOpenTask(p) ==
    /\ Starts(p, "CompleteTask")
    /\ arg'[p] \in DOMAIN store
    /\ ~store[arg'[p]].completed
    /\ ~obs'[p].sfail

\* the task that step returns is the old row, completed, and is the new row
CompletedImage(p) ==
    LET old == store[arg'[p]]
        t == res'[p].task
    IN /\ res'[p].err = ErrNil
       /\ t.completed
       /\ t.id = old.id /\ t.title = old.title
       /\ t.description = old.description /\ t.created_at = old.created_at
       /\ arg'[p] \in DOMAIN store' /\ store'[arg'[p]] = t

\* the cache write that ends CompleteTask leaves the returned task alone
CompleteKeepsResult(p) == pc[p] = "complete_cache" => res'[p] = res[p]

\* C11 (as claimed): CompleteTask on an existing uncompleted task returns the
\* task with completed = true and an updated_at strictly later than the
\* previous updated_at, the other fields unchanged, and the row holds the
\* same values.
C11_UpdatedAtStrictlyLater ==
    [][\A p \in Procs :
          /\ CompletesOpenTask(p)
             => /\ CompletedImage(p)
                /\ res'[p].task.updated_at > store[arg'[p]].updated_at
          /\ CompleteKeepsResult(p)]_vars

\* C11 (amended): CompleteTask on an existing uncompleted task returns the
\* task with completed = true and updated_at equal to the store's clock at the
\* UPDATE, which is strictly later than the previous updated_at when the clock
\* has advanced since that was taken and equal to it otherwise; id, title,
\* description and created_at are unchanged and the row holds the same values.
C11_UpdatedAtIsStoreClock ==
    [][\A p \in Procs :
          /\ CompletesOpenTask(p)
             => /\ CompletedImage(p)
                /\ res'[p].task.updated_at = now
                /\ res'[p].task.updated_at >= store[arg'[p]].updated_at
                /\ now > store[arg'[p]].updated_at
                   => res'[p].task.updated_at > store[arg'[p]].updated_at
          /\ CompleteKeepsResult(p)]_vars

C11_Witness ==
    \E p \in Procs :
        /\ pc[p] = "complete_cache"
        /\ op[p] = "CompleteTask"
        /\ lastWrite[arg[p]].op \in {"CreateTask", "GetTaskByID"}
        /\ ~lastWrite[arg[p]].task.completed
        /\ res[p].task.completed
        /\ res[p].task.updated_at > lastWrite[arg[p]].task.updated_at
        /\ res[p].task.created_at = lastWrite[arg[p]].task.created_at

\* C12: with the cache enabled and healthy, the cache write of a successful
\* CompleteTask leaves under the id's key the task that CompleteTask returns,
\* completed, with a lifetime of the full configured TTL from that moment,
\* whatever was under the key before; and a GetTaskByID that finds that write
\* returns the same task, completed = true.
C12_CompleteOverwritesEntry ==
    [][\A p \in Procs :
          /\ (pc[p] = "complete_cache" /\ pc'[p] = "done")
             => LET k == cacheKey(arg[p])
                IN /\ res'[p].err = ErrNil
                   /\ res'[p].task.completed
                   /\ k \in DOMAIN cache'
                   /\ UnmarshalOk(cache'[k].data)
                   /\ Unmarshal(cache'[k].data) = res'[p].task
                   /\ cache'[k].exp - now = cacheTTL
          /\ (Starts(p, "GetTaskByID") /\ lastWrite[arg'[p]].op = "CompleteTask")
             => /\ pc'[p] = "done"
                /\ res'[p].err = ErrNil
                /\ res'[p].task = lastWrite[arg'[p]].task
                /\ res'[p].task.completed]_vars

C12_Witness ==
    \E p \in Procs :
        /\ Done(p, "GetTaskByID")
        /\ obs[p].hit
        /\ obs[p].lk.op = "CompleteTask"
        /\ res[p].task.completed
        /\ res[p].task.updated_at > res[p].task.created_at
        /\ cache[cacheKey(arg[p])].exp = res[p].task.updated_at + cacheTTL

\* C13: when two concurrent CompleteTask calls on the same existing task have
\* both returned, both returned completed = true without error, and an entry
\* present for the id equals the id's row in every field, updated_at
\* included.
C13_ConcurrentCompleteConverges ==
    \A p, q \in Procs :
        ( /\ p # q
          /\ Done(p, "CompleteTask") /\ Done(q, "CompleteTask")
          /\ arg[p] = arg[q]
          /\ obs[p].hadRow /\ obs[q].hadRow )
        => /\ res[p].err = ErrNil /\ res[p].task.completed
           /\ res[q].err = ErrNil /\ res[q].task.completed
           /\ Cached(arg[p])
              => /\ arg[p] \in DOMAIN store
                 /\ CachedTask(arg[p]) = store[arg[p]]

\* C14: a CompleteTask whose UPDATE runs on an existing row that is already
\* completed returns the task with completed = true and no error, and the
\* row is still completed.
C14_CompleteIdempotent ==
    [][\A p \in Procs :
          ( /\ Starts(p, "CompleteTask")
            /\ arg'[p] \in DOMAIN store
            /\ store[arg'[p]].completed
            /\ ~obs'[p].sfail )
          => /\ res'[p].err = ErrNil
             /\ res'[p].task.completed
             /\ res'[p].task.id = arg'[p]
             /\ arg'[p] \in DOMAIN store'
             /\ store'[arg'[p]].completed
             /\ pc'[p] = "complete_cache"]_vars

C14_Witness ==
    \E p \in Procs :
        /\ pc[p] = "complete_cache"
        /\ op[p] = "CompleteTask"
        /\ lastWrite[arg[p]].op = "CompleteTask"
        /\ lastWrite[arg[p]].task.completed
        /\ res[p].err = ErrNil
        /\ res[p].task.completed
        /\ arg[p] \in DOMAIN store
        /\ store[arg[p]].completed

\* C15: a DeleteTask whose DELETE affects no row ends with that statement: it
\* returns sql.ErrNoRows, sends no cache command, and every cache entry, one
\* for the id included, keeps its value and its expiry.
C15_DeleteMissingKeepsCache ==
    [][\A p \in Procs :
          ( /\ Starts(p, "DeleteTask")
            /\ arg'[p] \notin DOMAIN store
            /\ ~obs'[p].sfail )
          => /\ pc'[p] = "done"
             /\ res'[p].err = ErrNoRows
             /\ obs'[p].cget = 0 /\ obs'[p].cset = 0 /\ obs'[p].cdel = 0
             /\ cache' = cache]_vars

C15_Witness ==
    \E p \in Procs :
        /\ Done(p, "DeleteTask")
        /\ res[p].err = ErrNoRows
        /\ arg[p] \in directDeleted
        /\ Cached(arg[p])
        /\ lastWrite[arg[p]].op \in LiveWriters
        /\ CachedTask(arg[p]) = lastWrite[arg[p]].task
        /\ cache[cacheKey(arg[p])].exp = lastWrite[arg[p]].at + cacheTTL

\* C16: a CompleteTask whose UPDATE finds no row for the id ends with that
\* statement: it returns sql.ErrNoRows and no task, sends no cache command,
\* and every cache entry, a stale one for the id included, keeps its value and
\* its expiry.
C16_CompleteMissingKeepsCache ==
    [][\A p \in Procs :
          ( /\ Starts(p, "CompleteTask")
            /\ arg'[p] \notin DOMAIN store
            /\ ~obs'[p].sfail )
          => /\ pc'[p] = "done"
             /\ res'[p].err = ErrNoRows
             /\ res'[p].task = NilTask
             /\ obs'[p].cget = 0 /\ obs'[p].cset = 0 /\ obs'[p].cdel = 0
             /\ cache' = cache
             /\ store' = store]_vars

C16_Witness ==
    \E p \in Procs :
        /\ Done(p, "CompleteTask")
        /\ res[p].err = ErrNoRows
        /\ arg[p] \in directDeleted
        /\ Cached(arg[p])
        /\ lastWrite[arg[p]].op \in LiveWriters
        /\ CachedTask(arg[p]) = lastWrite[arg[p]].task
        /\ ~CachedTask(arg[p]).completed

\* C17: GetAllTasks is one store statement: whether the cache is enabled,
\* disabled or failing, it sends no cache get, set or delete and leaves every
\* cache entry as it is, and it returns what the store-only repository
\* returns: the rows of the table, whatever the cache holds for their ids.
C17_GetAllBypassesCache ==
    [][\A p \in Procs :
          Starts(p, "GetAllTasks")
          => /\ pc'[p] = "done"
             /\ obs'[p].stmts = 1
             /\ obs'[p].cget = 0 /\ obs'[p].cset = 0 /\ obs'[p].cdel = 0
             /\ cache' = cache
             /\ res'[p] = ref'[p]
             /\ ~obs'[p].sfail
                => /\ res'[p].err = ErrNil
                   /\ \A i \in DOMAIN res'[p].tasks :
                         /\ res'[p].tasks[i].id \in DOMAIN store
                         /\ res'[p].tasks[i] = store[res'[p].tasks[i].id]]_vars

C17_Witness ==
    \E p \in Procs, id \in Ids :
        /\ Done(p, "GetAllTasks")
        /\ res[p].err = ErrNil
        /\ Cached(id)
        /\ UnmarshalOk(cache[cacheKey(id)].data)
        /\ id \in DOMAIN store
        /\ CachedTask(id) # store[id]
        /\ \E i \in DOMAIN res[p].tasks : res[p].tasks[i] = store[id]

\* C18: a GetAllTasks whose query succeeds returns no error and exactly one
\* entry per row the table holds at the query: the empty sequence on an empty
\* table, and, when every task that the N successful CreateTask calls made
\* still has its row, exactly N entries.
C18_GetAllOneEntryPerRow ==
    [][\A p \in Procs :
          (Starts(p, "GetAllTasks") /\ ~obs'[p].sfail)
          => LET ts == res'[p].tasks
             IN /\ res'[p].err = ErrNil
                /\ Len(ts) = Cardinality(DOMAIN store)
                /\ {ts[i].id : i \in DOMAIN ts} = DOMAIN store
                /\ store = <<>> => ts = <<>>
                /\ (\A i \in DOMAIN issued : issued[i] \in DOMAIN store)
                   => Len(ts) = Len(issued)]_vars

C18_Witness ==
    \E p \in Procs :
        /\ Done(p, "GetAllTasks")
        /\ res[p].err = ErrNil
        /\ Len(issued) = MaxTasks
        /\ Len(res[p].tasks) = MaxTasks
        /\ res[p].tasks[1].id # res[p].tasks[2].id

\* C19: a successful CreateTask returns a task with a positive id, the title
\* and the description of the request, completed = false and created_at equal
\* to updated_at; that task is the new row, the cache write that follows does
\* not alter it, and a request that the store accepts always succeeds.
C19_CreateReturnsNewTask ==
    [][\A p \in Procs :
          /\ (Starts(p, "CreateTask") /\ res'[p].err = ErrNil)
             => LET t == res'[p].task
                IN /\ t.id > 0
                   /\ t.title = obs'[p].req.title
                   /\ t.description = obs'[p].req.description
                   /\ ~t.completed
                   /\ t.created_at = t.updated_at
                   /\ t.id \in DOMAIN store' /\ store'[t.id] = t
          /\ (Starts(p, "CreateTask") /\ ~obs'[p].sfail) => res'[p].err = ErrNil
          /\ pc[p] = "create_cache" => res'[p] = res[p]]_vars

C19_Witness ==
    \E p \in Procs :
        /\ Done(p, "CreateTask")
        /\ res[p].err = ErrNil
        /\ res[p].task.id = 2
        /\ res[p].task.title = "B"
        /\ res[p].task.description = ""
        /\ ~res[p].task.completed
        /\ res[p].task.created_at > 0
        /\ res[p].task.created_at = res[p].task.updated_at

IssuedIds == {issued[i] : i \in DOMAIN issued}

\* C20: under every interleaving of the repository's operations, the ids
\* that successful CreateTask calls have returned are positive and pairwise
\* different, the ids of deleted tasks included; every row carries an id
\* that was issued; and an entry that the cache holds for an id with a row,
\* like a task that GetTaskByID returns for it, is an image of the very task
\* the id was issued for, never of an earlier task of the same id.
C20_IdsNeverReused ==
    /\ \A i, j \in DOMAIN issued : i # j => issued[i] # issued[j]
    /\ \A i \in DOMAIN issued : issued[i] > 0
    /\ DOMAIN store \subseteq IssuedIds
    /\ \A id \in DOMAIN store :
          Cached(id)
          => /\ CachedTask(id).id = id
             /\ CachedTask(id).title = store[id].title
             /\ CachedTask(id).description = store[id].description
             /\ CachedTask(id).created_at = store[id].created_at
    /\ \A p \in Procs :
          (Done(p, "GetTaskByID") /\ res[p].err = ErrNil /\ arg[p] \in DOMAIN store)
          => /\ res[p].task.id = arg[p]
             /\ res[p].task.created_at = store[arg[p]].created_at

C20_Witness ==
    /\ Len(issued) = 2
    /\ issued[1] \notin DOMAIN store
    /\ Cached(issued[1])
    /\ issued[2] \in DOMAIN store
    /\ Cached(issued[2])
    /\ CachedTask(issued[2]) = store[issued[2]]

\* ------------------------------------------------------ service, server
ValidationErrors == {ErrEmptyTitle, ErrTitleTooLong, ErrInvalidTaskId, ErrInvalidId}

\* the input of call c is malformed
Malformed(c) ==
    \/ /\ c.op = "CreateTask"
       /\ TrimSpace(c.req.title) = <<>> \/ Len(c.req.title) > 255
    \/ /\ c.op \in {"GetTaskByID", "CompleteTask", "DeleteTask"}
       /\ c.id <= 0

\* caller p's call has been answered with the service error err
Returned(p, name, err) ==
    svc[p].stage = "returned" /\ svc[p].op = name /\ svc[p].err = err

\* C21: a call of Service.CreateTask whose title is empty after trimming or
\* longer than 255 characters, and a call of Service.GetTaskByID,
\* CompleteTask or DeleteTask whose id is not positive, is answered with a
\* validation error in the step it arrives in: no repository method is
\* called for it, and store and cache are what they were.
C21_InvalidInputStopsAtService ==
    [][\A p \in Procs :
         Malformed(svc'[p])
         => /\ svc'[p].stage = "returned"
            /\ svc'[p].err \in ValidationErrors
            /\ svc'[p].calls = <<>>
            /\ pc'[p] = "idle" /\ op'[p] = ""
            /\ svc[p].stage = "idle" => store' = store /\ cache' = cache]_vars

C21_Witness ==
    /\ store # <<>>
    /\ cache # <<>>
    /\ \E p \in Procs :
          /\ Returned(p, "CreateTask", ErrTitleTooLong)
          /\ Len(svc[p].req.title) = 256
          /\ svc[p].calls = <<>>

\* caller p takes a step of the call it is in
CallStep(p) == pc'[p] # pc[p] \/ svc'[p] # svc[p]

\* caller p's Service.CompleteTask has been told by the repository's
\* GetTaskByID that the task is completed
ToldCompleted(p) ==
    /\ svc[p].op = "CompleteTask" /\ svc[p].stage = "get"
    /\ op[p] = "GetTaskByID"
    /\ res[p].err = ErrNil /\ res[p].task.completed

\* C22 as stated: once the repository's GetTaskByID reports the task as
\* completed, no step of the Service.CompleteTask call changes the store or
\* the cache.
C22_CompletedLeavesCacheUnchanged ==
    [][\A p \in Procs :
         (ToldCompleted(p) /\ CallStep(p)) => store' = store /\ cache' = cache]_vars

\* C22 amended: Service.CompleteTask(id) on a task that the repository's
\* GetTaskByID reports as completed returns "task already completed"
\* (FailedPrecondition) and does not call the repository's CompleteTask; no
\* step of the call changes the store, and the only change to the cache is
\* the lookup's own fill after a cache miss, which writes the row it read
\* under the id's key with a fresh TTL.
C22_CompletedIsRefused ==
    [][\A p \in Procs :
         (ToldCompleted(p) /\ CallStep(p))
         => /\ store' = store
            /\ \/ cache' = cache
               \/ /\ pc[p] = "get_fill"
                  /\ cache' = RedisSet(cache, cacheKey(svc[p].id),
                                       Marshal(res[p].task), cacheTTL)
            /\ svc'[p].stage \in {"get", "returned"}
            /\ svc'[p].stage = "returned"
               => /\ svc'[p].err = ErrAlreadyCompleted
                  /\ svc'[p].code = FailedPrecondition
                  /\ svc'[p].calls = <<"GetTaskByID">>
                  /\ pc'[p] = "idle"]_vars

C22_Witness ==
    \E p \in Procs :
       /\ Returned(p, "CompleteTask", ErrAlreadyCompleted)
       /\ ~svc[p].hit
       /\ svc[p].id \in DOMAIN store
       /\ store[svc[p].id].completed
       /\ store[svc[p].id].updated_at < now
       /\ Cached(svc[p].id)
       /\ CachedTask(svc[p].id) = store[svc[p].id]

\* C23: of the Service.CompleteTask calls on one id that run at once, at
\* most one is answered with success.
C23_CompletedOnce ==
    \A p, q \in Procs :
       (/\ p # q
        /\ Returned(p, "CompleteTask", ErrNil)
        /\ Returned(q, "CompleteTask", ErrNil))
       => svc[p].id # svc[q].id

\* the repository method that caller p's service call made has returned err
RepoGave(p, err) ==
    /\ svc[p].op \in {"CreateTask", "GetTaskByID", "GetAllTasks", "CompleteTask",
                      "DeleteTask"}
    /\ svc[p].stage \in {"get", "call"}
    /\ pc[p] = "done" /\ res[p].err = err
    /\ CallStep(p)

\* C24: when a repository call made by Service.GetTaskByID, CompleteTask or
\* DeleteTask returns the store's not-found error, the service returns one
\* of its not-found errors and the gRPC status is NotFound.
C24_NotFoundIsNotFound ==
    [][\A p \in Procs :
         (RepoGave(p, ErrNoRows)
          /\ svc[p].op \in {"GetTaskByID", "CompleteTask", "DeleteTask"})
         => /\ svc'[p].stage = "returned"
            /\ svc'[p].err \in {ErrTaskNotFound, ErrFailedToFind}
            /\ svc'[p].code = NotFound]_vars

\* C25: when a repository call made by any of the five service operations
\* returns a store error other than not-found, the gRPC status is Internal.
C25_StoreErrorIsInternal ==
    [][\A p \in Procs :
         RepoGave(p, StoreErr)
         => svc'[p].stage = "returned" /\ svc'[p].code = Internal]_vars

\* C26: Service.DeleteTask with a positive id returns "failed to find task"
\* and does not call the repository's DeleteTask whenever its preliminary
\* GetTaskByID fails, with not-found or with any other error; when the lookup
\* succeeds it calls the repository's DeleteTask and returns that call's
\* error unchanged.
C26_DeleteLookupFailure ==
    [][\A p \in Procs :
         (svc[p].op = "DeleteTask" /\ pc[p] = "done" /\ CallStep(p))
         => /\ (svc[p].stage = "get" /\ res[p].err # ErrNil)
               => /\ svc'[p].stage = "returned"
                  /\ svc'[p].err = "failed to find task"
                  /\ svc'[p].calls = <<"GetTaskByID">>
                  /\ pc'[p] = "idle"
                  /\ store' = store /\ cache' = cache
            /\ (svc[p].stage = "get" /\ res[p].err = ErrNil)
               => /\ svc'[p].stage = "call"
                  /\ svc'[p].calls = <<"GetTaskByID", "DeleteTask">>
            /\ svc[p].stage = "call"
               => /\ svc'[p].stage = "returned"
                  /\ svc'[p].err = res[p].err]_vars

C26_Witness ==
    \E p \in Procs :
       /\ Returned(p, "DeleteTask", ErrFailedToFind)
       /\ svc[p].goterr = StoreErr
       /\ svc[p].id \in DOMAIN store
       /\ svc[p].calls = <<"GetTaskByID">>

\* the status the gRPC server is to answer the service error err with
StatusOf(err) ==
    IF err \in {"title can not be empty", "title too long, maximum 255 characters",
                "invalid task id", "invalid id"} THEN InvalidArgument
    ELSE IF err \in {"task not found", "failed to find task"} THEN NotFound
    ELSE IF err = "task already completed" THEN FailedPrecondition
    ELSE Internal

\* C27: a call that the service ends with an error is answered with a nil
\* response and the status InvalidArgument for the validation errors,
\* NotFound for "task not found" and "failed to find task",
\* FailedPrecondition for "task already completed", and Internal with the
\* message "internal server error" for every other error.
C27_ErrorToStatus ==
    \A p \in Procs :
       (svc[p].stage = "returned" /\ svc[p].err # ErrNil)
       => /\ svc[p].resp = "nil"
          /\ svc[p].code = StatusOf(svc[p].err)
          /\ svc[p].code = Internal => svc[p].msg = "internal server error"

C27_Witness ==
    \E p \in Procs :
       /\ Returned(p, "CompleteTask", ErrAlreadyCompleted)
       /\ svc[p].code = FailedPrecondition
       /\ svc[p].resp = "nil"
       /\ svc[p].hit

\* C28: a CreateTask call that the service ends with "title too long,
\* maximum 255 characters" is answered with InvalidArgument and exactly that
\* message.
C28_TitleTooLongMessage ==
    \A p \in Procs :
       Returned(p, "CreateTask", "title too long, maximum 255 characters")
       => /\ svc[p].code = InvalidArgument
          /\ svc[p].msg = "title too long, maximum 255 characters"

\* C29: with the cache enabled and answering and every store change made
\* through the repository, in every state in which no repository operation
\* is in flight every id that has a cache entry has a store row. The
\* entries looked at are those last written by GetTaskByID or CompleteTask,
\* the operations that run at once with DeleteTask.
C29_NoOrphanEntries ==
    (\A p \in Procs : pc[p] \in {"idle", "done"})
    => \A id \in Ids :
          (Cached(id) /\ lastWrite[id].op \in {"GetTaskByID", "CompleteTask"})
          => id \in DOMAIN store

\* the repository's GetTaskByID of caller p is served by the cache
Hits(p) == Starts(p, "GetTaskByID") /\ pc'[p] = "done"

\* C30: a GetTaskByID that hits the cache executes no store statement and
\* no cache write: store and cache, the entry's value and expiry included,
\* are what they were; so every entry expires one TTL after its last write
\* by CreateTask, by a GetTaskByID miss or by CompleteTask, however many hits
\* came in between.
C30_HitLeavesEntryAlone ==
    [][/\ \A p \in Procs :
            Hits(p)
            => /\ obs'[p].hit /\ obs'[p].stmts = 0 /\ obs'[p].cset = 0
               /\ store' = store /\ cache' = cache
               /\ res'[p].task = CachedTask(arg'[p])
       /\ \A id \in Ids :
            cacheKey(id) \in DOMAIN cache'
            => /\ lastWrite'[id].op \in LiveWriters
               /\ cache'[cacheKey(id)].exp = lastWrite'[id].at + cacheTTL']_vars

C30_Witness ==
    \E p \in Procs :
       /\ Done(p, "GetTaskByID") /\ obs[p].hit
       /\ lastWrite[arg[p]].at < now
       /\ cache[cacheKey(arg[p])].exp = lastWrite[arg[p]].at + cacheTTL
       /\ cache[cacheKey(arg[p])].exp = now + 1

\* ------------------------------------------------- repository, continued
\* the id's key holds a live value that does not decode to a task
Undecodable(id) == Cached(id) /\ ~UnmarshalOk(cache[cacheKey(id)].data)

\* caller p's GetTaskByID is the one whose lookup met an undecodable entry
MetUndecodable(p) == op[p] = "GetTaskByID" /\ obs[p].lk.op = "garbage"

\* C31: a GetTaskByID whose lookup finds an undecodable entry goes on to
\* read the store; when the row exists it returns the row without error and
\* attempts the cache write, which, when Redis accepts it, replaces the
\* entry by the row's snapshot at full TTL; when the row does not exist it
\* returns sql.ErrNoRows; the only errors it can return are those of the
\* store statement.
C31_UndecodableIsMiss ==
    [][\A p \in Procs :
         /\ (Starts(p, "GetTaskByID") /\ Undecodable(arg'[p]))
            => /\ pc'[p] = "get_select"
               /\ ~obs'[p].hit /\ res'[p].err = ErrNil
         /\ (MetUndecodable(p) /\ pc[p] = "get_select" /\ pc'[p] # pc[p])
            => /\ obs'[p].stmts = 1
               /\ \/ res'[p].err = StoreErr /\ pc'[p] = "done"
                  \/ /\ arg[p] \in DOMAIN store
                     /\ res'[p].err = ErrNil /\ res'[p].task = store[arg[p]]
                     /\ pc'[p] = "get_fill"
                  \/ /\ arg[p] \notin DOMAIN store
                     /\ res'[p].err = ErrNoRows /\ res'[p].task = NilTask
                     /\ pc'[p] = "done"
         /\ (MetUndecodable(p) /\ pc[p] = "get_fill" /\ pc'[p] # pc[p])
            => /\ pc'[p] = "done" /\ res'[p] = res[p]
               /\ \/ cache' = cache
                  \/ cache' = RedisSet(cache, cacheKey(arg[p]),
                                       Marshal(res[p].task), cacheTTL)]_vars

C31_Witness ==
    \E p \in Procs :
       /\ Done(p, "GetTaskByID") /\ obs[p].lk.op = "garbage"
       /\ res[p].err = ErrNil
       /\ arg[p] \in DOMAIN store /\ res[p].task = store[arg[p]]
       /\ Cached(arg[p]) /\ ~Undecodable(arg[p])
       /\ CachedTask(arg[p]) = store[arg[p]]
       /\ cache[cacheKey(arg[p])].exp = now + cacheTTL

CacheSteps == {"create_cache", "get_fill", "complete_cache", "delete_cache"}

\* caller p's call has returned success from an operation that writes the
\* cache
ReturnedWrite(p) ==
    /\ pc[p] = "done" /\ res[p].err = ErrNil
    /\ \/ op[p] \in {"CreateTask", "CompleteTask", "DeleteTask"}
       \/ op[p] = "GetTaskByID" /\ ~obs[p].hit

\* C32: when CreateTask, a GetTaskByID miss, CompleteTask or DeleteTask has
\* returned success with the cache enabled, its one cache set or delete
\* attempt is over; a call that has returned changes the cache no more: the
\* cache changes only in the cache step of a call still in flight, by the
\* passing of time or by a foreign write to Redis.
C32_CacheWriteInline ==
    [][/\ \A p \in Procs :
            (ReturnedWrite(p) /\ cacheEnabled)'
            => /\ obs'[p].cset + obs'[p].cdel = 1 \/ obs'[p].cfail
               /\ op'[p] = "DeleteTask" <=> obs'[p].cdel = 1
       /\ cache' # cache
            => \/ now' # now
               \/ \E p \in Procs : pc[p] \in CacheSteps /\ pc'[p] = "done"
               \/ \E id \in Ids : lastWrite'[id].op = "garbage"
                                    /\ lastWrite[id].op # "garbage"]_vars

C32_Witness ==
    \E p \in Procs :
       /\ Done(p, "DeleteTask") /\ res[p].err = ErrNil
       /\ obs[p].cdel = 1 /\ ~obs[p].cfail
       /\ ~Cached(arg[p])
       /\ arg[p] \notin DOMAIN store

\* C33: under every interleaving of the repository's operations, a row
\* that a step leaves in the store keeps its id, title, description and
\* created_at, stays completed once it is, and its updated_at does not
\* decrease; the store's clock does not run backwards.
C33_RowFieldsStable ==
    [][\A id \in DOMAIN store \cap DOMAIN store' :
         /\ store'[id].id = store[id].id /\ store[id].id = id
         /\ store'[id].title = store[id].title
         /\ store'[id].description = store[id].description
         /\ store'[id].created_at = store[id].created_at
         /\ store[id].completed => store'[id].completed
         /\ store'[id].updated_at >= store[id].updated_at]_vars

C33_Witness ==
    \E id \in DOMAIN store :
       /\ store[id].completed
       /\ store[id].created_at = 0
       /\ store[id].updated_at = MaxTime
       /\ \E p \in Procs : Done(p, "CompleteTask") /\ arg[p] = id
                             /\ res[p].task = store[id]

KeysInjective ==
    \A a, b \in 0 .. MaxKeyId : a # b => cacheKey(a) # cacheKey(b)

EntryOf(c, id) == IF cacheKey(id) \in DOMAIN c THEN c[cacheKey(id)] ELSE "none"

\* C34: the keys of different ids differ, and a step of a repository
\* operation on an id leaves the entry, value and expiry, of every other id
\* as it was.
C34_OtherKeysUntouched ==
    [][/\ KeysInjective
       /\ \A p \in Procs :
            pc'[p] # pc[p]
            => \A b \in Ids :
                  (b # arg'[p] /\ b # arg[p])
                  => EntryOf(cache', b) = EntryOf(cache, b)]_vars

C34_Witness ==
    \E p \in Procs :
       /\ Done(p, "CompleteTask") /\ res[p].err = ErrNil /\ arg[p] = 2
       /\ Cached(2) /\ ~Undecodable(2) /\ CachedTask(2).completed
       /\ Cached(1) /\ ~Undecodable(1) /\ ~CachedTask(1).completed
       /\ 1 \in DOMAIN store /\ CachedTask(1) = store[1]

\* C35: what main hands to NewTaskRepository stays as it is for the life of
\* the process. When Redis is disabled in the configuration or its startup
\* ping failed, the repository has no client and no operation ever sends a
\* cache request, whether or not Redis would answer; with a client and a
\* positive TTL every GetTaskByID sends its lookup.
C35_EnablementFixedAtStartup ==
    [][/\ redisClient' = redisClient /\ cacheTTL' = cacheTTL
       /\ startup' = startup
       /\ (~startup.enabled \/ startup.ping # "ok")
            => /\ redisClient = "nil"
               /\ cache' = <<>>
               /\ \A p \in Procs :
                     obs'[p].cget = 0 /\ obs'[p].cset = 0 /\ obs'[p].cdel = 0
       /\ (redisClient = "client" /\ cacheTTL > 0)
            => \A p \in Procs :
                  Starts(p, "GetTaskByID") => obs'[p].cget = 1]_vars

C35_Witness ==
    /\ startup.enabled /\ startup.ping = "err"
    /\ cacheTTL > 0
    /\ cache = <<>>
    /\ \E p \in Procs :
          /\ Done(p, "GetTaskByID") /\ res[p].err = ErrNil
          /\ obs[p].cget = 0 /\ obs[p].cset = 0 /\ obs[p].stmts = 1
          /\ arg[p] \in DOMAIN store /\ res[p].task = store[arg[p]]

\* ------------------------------------------------------------ api-service
\* C36: a create, delete or complete request whose backend call returned an
\* error is answered 400 for InvalidArgument, 404 for NotFound, 409 for
\* FailedPrecondition, and 500 for every other gRPC code and for an error
\* that is no gRPC status.
C36_GrpcErrorToHttpStatus ==
    (/\ http.stage = "responded"
     /\ http.handler \in {"CreateTask", "DeleteTask", "CompleteTask"}
     /\ http.backend \notin {"", OK})
    => http.status = IF http.backend = InvalidArgument THEN 400
                     ELSE IF http.backend = NotFound THEN 404
                     ELSE IF http.backend = FailedPrecondition THEN 409
                     ELSE 500

C36_Witness ==
    /\ http.stage = "responded" /\ http.handler = "CompleteTask"
    /\ http.backend = FailedPrecondition /\ http.status = 409

\* C37: a handler calls Send at most once per request and only after its
\* backend call succeeded: not for a wrong method, invalid JSON, a
\* validation failure or a backend error; and the response after a
\* successful backend call is the same whether Send succeeded or failed.
C37_PublishAfterSuccess ==
    /\ http.sends <= 1 /\ http.events <= http.sends
    /\ http.sends = 1
         => /\ http.backend = OK
            /\ http.method = MethodOf(http.handler)
            /\ http.handler = "ListTasks" \/ (http.body = "json" /\ http.valid)
    /\ (http.stage = "responded" /\ http.status >= 400) => http.sends = 0
    /\ (http.stage = "responded" /\ http.backend = OK)
         => /\ http.sends = 1
            /\ http.status = IF http.handler = "CreateTask" THEN 201 ELSE 200
            /\ http.out = IF http.handler = "DeleteTask"
                          THEN "Task deleted successfully"
                          ELSE IF http.handler = "ListTasks" THEN "tasks"
                          ELSE "task"

C37_Witness ==
    /\ http.stage = "responded" /\ http.handler = "CreateTask"
    /\ http.sends = 1 /\ http.sendErr /\ http.events = 0
    /\ http.status = 201

====
